---- MODULE Spec2Model ----
(***************************************************************************)
(* Earlygirl: a work/break interval timer (src/src/main.rs).               *)
(* The application state is the struct Earlygirl; it is changed only by    *)
(* Earlygirl::update, one call per Message.  Time is counted in seconds.   *)
(* The environment is the clock behind Instant::now, the tick subscription *)
(* (time::every) whose messages wait in the runtime's queue, and the       *)
(* preference store whose save may fail.                                   *)
(***************************************************************************)
EXTENDS Integers, Sequences, FiniteSets, TLC

VARIABLES
    earlygirl,      \* the struct Earlygirl (self)
    clock,          \* the monotonic clock read by Instant::now()
    pending,        \* Tick messages produced by the subscription, not yet handled
    panicked,       \* TRUE once assert!(save_result.is_ok()) has failed
    message,        \* the Message of the latest call of update
    pre,            \* self at the entry of the latest call of update
    notification,   \* summary shown by the latest call of update, or "none"
    save_result,    \* result of preferences.save in the latest call: "none", "ok", "err"
    display         \* what the latest call of view has put on the screen

vars == <<earlygirl, clock, pending, panicked, message, pre, notification, save_result,
          display>>

----------------------------------------------------------------------------
\* Bounds of the model
MaxClock == 600         \* the clock stops advancing here
MaxQueue == 1           \* Tick messages that may wait unhandled
Step == 150             \* seconds between two observations of the clock

\* Program constants
MINUTE == 60
HOUR == 3600
DefaultWorkInterval == 2700
DefaultBreakInterval == 900

\* Inputs
Deltas == {Step, 2 * Step}              \* time that passes in one Advance
SliderValues == {5, 10}                 \* minutes; the sliders range over 5..60 step 5
SavedIntervals == {5 * MINUTE, 10 * MINUTE}   \* intervals an earlier run has saved

----------------------------------------------------------------------------
\* enum TimerState
Idle == [tag |-> "Idle"]
Ticking(t) == [tag |-> "Ticking", last_tick |-> t]

\* impl Default for EarlyGirlPreferences
DefaultPreferences ==
    [work_interval |-> DefaultWorkInterval, break_interval |-> DefaultBreakInterval,
     auto_start_work |-> FALSE, auto_start_break |-> FALSE]

\* EarlyGirlPreferences::load(..).unwrap_or_default(): what an earlier run saved, or the default
LoadedPreferences ==
    {DefaultPreferences} \cup
    [work_interval : SavedIntervals, break_interval : SavedIntervals,
     auto_start_work : BOOLEAN, auto_start_break : BOOLEAN]

\* Earlygirl::new
new(preferences) ==
    [current_timer_duration |-> 0,
     interval |-> preferences.work_interval,
     timer_type |-> "WorkTime",
     timer_state |-> Idle,
     preferences |-> preferences,
     show_modal |-> FALSE]

duration_since_signed(now, earlier) == now - earlier

\* Instant::duration_since: saturates to zero when `earlier` is later than `now`
duration_since(now, earlier) == IF now >= earlier THEN now - earlier ELSE 0

\* Earlygirl::set_interval_for_work_type
set_interval_for_work_type(s) ==
    [s EXCEPT !.interval = IF s.timer_type = "WorkTime"
                           THEN s.preferences.work_interval
                           ELSE s.preferences.break_interval]

\* Earlygirl::send_notification: the summary of the notification
send_notification(s) ==
    IF s.timer_type = "WorkTime" THEN "Time to get back to work!" ELSE "Time for a break!"

toggle_work_type_keeps_duration(s) ==
    IF s.timer_type = "WorkTime"
    THEN [s EXCEPT !.timer_type = "BreakTime",
                   !.interval = s.preferences.break_interval,
                   !.timer_state = IF ~s.preferences.auto_start_break THEN Idle ELSE @]
    ELSE [s EXCEPT !.timer_type = "WorkTime",
                   !.interval = s.preferences.work_interval,
                   !.timer_state = IF ~s.preferences.auto_start_work THEN Idle ELSE @]

toggle_work_type_stale_interval(s) ==
    IF s.timer_type = "WorkTime"
    THEN [s EXCEPT !.timer_type = "BreakTime",
                   !.timer_state = IF ~s.preferences.auto_start_break THEN Idle ELSE @,
                   !.current_timer_duration = 0]
    ELSE [s EXCEPT !.timer_type = "WorkTime",
                   !.timer_state = IF ~s.preferences.auto_start_work THEN Idle ELSE @,
                   !.current_timer_duration = 0]

toggle_work_type_starts(s) ==
    IF s.timer_type = "WorkTime"
    THEN [s EXCEPT !.timer_type = "BreakTime",
                   !.interval = s.preferences.break_interval,
                   !.timer_state = IF ~s.preferences.auto_start_break THEN Idle
                                                                     ELSE Ticking(clock),
                   !.current_timer_duration = 0]
    ELSE [s EXCEPT !.timer_type = "WorkTime",
                   !.interval = s.preferences.work_interval,
                   !.timer_state = IF ~s.preferences.auto_start_work THEN Idle
                                                                    ELSE Ticking(clock),
                   !.current_timer_duration = 0]

\* Earlygirl::toggle_work_type
toggle_work_type(s) ==
    IF s.timer_type = "WorkTime"
    THEN [s EXCEPT !.timer_type = "BreakTime",
                   !.interval = s.preferences.break_interval,
                   !.timer_state = IF ~s.preferences.auto_start_break THEN Idle ELSE @,
                   !.current_timer_duration = 0]
    ELSE [s EXCEPT !.timer_type = "WorkTime",
                   !.interval = s.preferences.work_interval,
                   !.timer_state = IF ~s.preferences.auto_start_work THEN Idle ELSE @,
                   !.current_timer_duration = 0]

reset_timer_keeps_duration(s) ==
    set_interval_for_work_type([s EXCEPT !.timer_state = Idle])

reset_timer_to_work(s) ==
    set_interval_for_work_type([s EXCEPT !.timer_state = Idle, !.current_timer_duration = 0,
                                         !.timer_type = "WorkTime"])

\* Earlygirl::reset_timer
reset_timer(s) ==
    set_interval_for_work_type([s EXCEPT !.timer_state = Idle, !.current_timer_duration = 0])

update_Toggle_keeps_duration(s, now) ==
    IF s.timer_state = Idle
    THEN set_interval_for_work_type([s EXCEPT !.timer_state = Ticking(now)])
    ELSE [s EXCEPT !.timer_state = Idle]

\* update, Message::Toggle
update_Toggle(s, now) ==
    IF s.timer_state = Idle
    THEN set_interval_for_work_type(
            [s EXCEPT !.timer_state = Ticking(now), !.current_timer_duration = 0])
    ELSE [s EXCEPT !.timer_state = Idle]

accumulate_keeps_last_tick(s, now) ==
    [s EXCEPT !.current_timer_duration = @ + duration_since(now, s.timer_state.last_tick)]

accumulate_drops_delta(s, now) == [s EXCEPT !.timer_state = Ticking(now)]

\* update, Message::Tick, lines 127-129: add the time since last_tick, move last_tick
accumulate(s, now) ==
    [s EXCEPT !.current_timer_duration = @ + duration_since(now, s.timer_state.last_tick),
              !.timer_state = Ticking(now)]

phase_complete_strict(s, now) ==
    /\ s.timer_state.tag = "Ticking"
    /\ accumulate(s, now).current_timer_duration > s.interval

\* update, Message::Tick, lines 126 and 131: the threshold is reached by this Tick
phase_complete(s, now) ==
    /\ s.timer_state.tag = "Ticking"
    /\ accumulate(s, now).current_timer_duration >= s.interval

\* update, Message::Tick
update_Tick(s, now) ==
    IF s.timer_state.tag = "Ticking"
    THEN IF phase_complete(s, now) THEN toggle_work_type(accumulate(s, now))
                                   ELSE accumulate(s, now)
    ELSE s

\* update, Message::Tick: the notification sent, if any
notify_Tick(s, now) ==
    IF phase_complete(s, now) THEN send_notification(accumulate(s, now)) ELSE "none"

\* Earlygirl::write_preferences followed by the rest of the handler `rest`:
\* a failed save panics in the assert, the rest of the handler does not run
write_preferences(s, ok, rest) == IF ok THEN rest ELSE s

update_WorkIntervalChanged_no_recompute(s, new_interval, ok) ==
    LET s1 == [s EXCEPT !.preferences.work_interval = new_interval * MINUTE]
    IN  write_preferences(s1, ok, s1)

\* update, Message::WorkIntervalChanged
update_WorkIntervalChanged(s, new_interval, ok) ==
    LET s1 == [s EXCEPT !.preferences.work_interval = new_interval * MINUTE]
    IN  write_preferences(s1, ok, set_interval_for_work_type(s1))

update_BreakIntervalChanged_sets_interval(s, new_interval, ok) ==
    LET s1 == [s EXCEPT !.preferences.break_interval = new_interval * MINUTE]
    IN  write_preferences(s1, ok, [s1 EXCEPT !.interval = new_interval * MINUTE])

\* update, Message::BreakIntervalChanged
update_BreakIntervalChanged(s, new_interval, ok) ==
    LET s1 == [s EXCEPT !.preferences.break_interval = new_interval * MINUTE]
    IN  write_preferences(s1, ok, set_interval_for_work_type(s1))

\* update, Message::AutoStartWorkChanged
update_AutoStartWorkChanged(s, new_value, ok) ==
    LET s1 == [s EXCEPT !.preferences.auto_start_work = new_value]
    IN  write_preferences(s1, ok, s1)

\* update, Message::AutoStartBreakChanged
update_AutoStartBreakChanged(s, new_value, ok) ==
    LET s1 == [s EXCEPT !.preferences.auto_start_break = new_value]
    IN  write_preferences(s1, ok, s1)

subscription_always(s) == TRUE

\* Earlygirl::subscription: the tick source is subscribed while Ticking
subscription(s) == s.timer_state.tag = "Ticking"

\* format!("{:0>2}", n) of a whole number n
pad2(n) == IF n >= 0 /\ n < 10 THEN "0" \o ToString(n) ELSE ToString(n)

view_duration_unclamped(s) ==
    LET time_remaining == s.interval - s.current_timer_duration
    IN  pad2(time_remaining \div HOUR) \o ":" \o
        pad2((time_remaining % HOUR) \div MINUTE) \o ":" \o
        pad2(time_remaining % MINUTE)

\* Earlygirl::view, lines 275-285: the remaining time shown as text
view_duration(s) ==
    LET time_remaining == IF s.interval <= s.current_timer_duration
                          THEN 0
                          ELSE s.interval - s.current_timer_duration
    IN  pad2(time_remaining \div HOUR) \o ":" \o
        pad2((time_remaining % HOUR) \div MINUTE) \o ":" \o
        pad2(time_remaining % MINUTE)

\* Earlygirl::view, line 341: the quotient (elapsed / interval) * 100 handed to
\* the progress bar, kept as numerator and denominator
view_timer_progress(s) ==
    [num |-> s.current_timer_duration * 100, den |-> s.interval]

\* Earlygirl::view
view(s) == [duration |-> view_duration(s), timer_progress |-> view_timer_progress(s)]

----------------------------------------------------------------------------
Init ==
    /\ earlygirl \in {new(p) : p \in LoadedPreferences}
    /\ clock = 0
    /\ pending = <<>>
    /\ panicked = FALSE
    /\ message = [type |-> "None"]
    /\ pre = earlygirl
    /\ notification = "none"
    /\ save_result = "none"
    /\ display = view(earlygirl)

\* One call of update that does not touch the preference store
Dispatch(msg, s, note) ==
    /\ ~panicked
    /\ message' = msg
    /\ pre' = earlygirl
    /\ earlygirl' = s
    /\ notification' = note
    /\ save_result' = "none"
    /\ display' = view(s)
    /\ UNCHANGED <<clock, panicked>>

\* One call of update that saves the preferences
DispatchSaving(msg, s, ok) ==
    /\ ~panicked
    /\ message' = msg
    /\ pre' = earlygirl
    /\ earlygirl' = s
    /\ notification' = "none"
    /\ save_result' = IF ok THEN "ok" ELSE "err"
    /\ panicked' = ~ok
    /\ display' = IF ok THEN view(s) ELSE display
    /\ UNCHANGED <<clock, pending>>

\* Time passes
Advance ==
    /\ ~panicked
    /\ \E d \in Deltas :
         /\ clock + d <= MaxClock
         /\ clock' = clock + d
    /\ UNCHANGED <<earlygirl, pending, panicked, message, pre, notification, save_result,
                   display>>

\* time::every(..).map(Message::Tick): the subscription produces a Tick
TickSource ==
    /\ ~panicked
    /\ subscription(earlygirl)
    /\ Len(pending) < MaxQueue
    /\ pending' = Append(pending, clock)
    /\ UNCHANGED <<earlygirl, clock, panicked, message, pre, notification, save_result,
                   display>>

Toggle ==
    /\ Dispatch([type |-> "Toggle"], update_Toggle(earlygirl, clock), "none")
    /\ UNCHANGED pending

Tick ==
    /\ pending # <<>>
    /\ LET now == Head(pending)
       IN  Dispatch([type |-> "Tick", now |-> now],
                    update_Tick(earlygirl, now), notify_Tick(earlygirl, now))
    /\ pending' = Tail(pending)

ToggleSettings ==
    /\ Dispatch([type |-> "ToggleSettings"],
                [earlygirl EXCEPT !.show_modal = ~@], "none")
    /\ UNCHANGED pending

WorkIntervalChanged ==
    \E v \in SliderValues, ok \in BOOLEAN :
        DispatchSaving([type |-> "WorkIntervalChanged", value |-> v],
                       update_WorkIntervalChanged(earlygirl, v, ok), ok)

BreakIntervalChanged ==
    \E v \in SliderValues, ok \in BOOLEAN :
        DispatchSaving([type |-> "BreakIntervalChanged", value |-> v],
                       update_BreakIntervalChanged(earlygirl, v, ok), ok)

AutoStartWorkChanged ==
    \E b \in BOOLEAN, ok \in BOOLEAN :
        DispatchSaving([type |-> "AutoStartWorkChanged", value |-> b],
                       update_AutoStartWorkChanged(earlygirl, b, ok), ok)

AutoStartBreakChanged ==
    \E b \in BOOLEAN, ok \in BOOLEAN :
        DispatchSaving([type |-> "AutoStartBreakChanged", value |-> b],
                       update_AutoStartBreakChanged(earlygirl, b, ok), ok)

Reset ==
    /\ Dispatch([type |-> "Reset"], reset_timer(earlygirl), "none")
    /\ UNCHANGED pending

SwitchWorkType ==
    /\ Dispatch([type |-> "SwitchWorkType"], toggle_work_type(earlygirl), "none")
    /\ UNCHANGED pending

Next ==
    \/ Advance
    \/ TickSource
    \/ Toggle
    \/ Tick
    \/ ToggleSettings
    \/ WorkIntervalChanged
    \/ BreakIntervalChanged
    \/ AutoStartWorkChanged
    \/ AutoStartBreakChanged
    \/ Reset
    \/ SwitchWorkType

Spec == Init /\ [][Next]_vars

----------------------------------------------------------------------------
\* The view as a function of the state it is given: intervals as a
\* preference file may hold them, elapsed times around the minute and hour marks
ViewIntervals == {60, 300, 3600, 3661}
ViewElapsed == {0, 1, 59, 60, 61, 300, 3599, 3600, 3601, 3660, 3661, 3662, 7322}

\* Nothing has been drawn yet
Blank == [duration |-> "", timer_progress |-> [num |-> 0, den |-> 1]]

ViewInit ==
    /\ earlygirl \in
         {[new([DefaultPreferences EXCEPT !.work_interval = i])
              EXCEPT !.current_timer_duration = e] : i \in ViewIntervals, e \in ViewElapsed}
    /\ clock = 0
    /\ pending = <<>>
    /\ panicked = FALSE
    /\ message = [type |-> "None"]
    /\ pre = earlygirl
    /\ notification = "none"
    /\ save_result = "none"
    /\ display = Blank

\* The runtime calls view and draws what it returns
Render ==
    /\ display # view(earlygirl)
    /\ display' = view(earlygirl)
    /\ UNCHANGED <<earlygirl, clock, pending, panicked, message, pre, notification,
                   save_result>>

ViewNext == Render

ViewSpec == ViewInit /\ [][ViewNext]_vars

----------------------------------------------------------------------------
\* The timer left alone after it has been started: the clock runs, the tick
\* source produces Ticks while subscribed and the runtime hands them to update.
\* Instants are only ever subtracted from one another, so each advance of the
\* clock moves the origin of time to last_tick.

rebase(s, shift) ==
    IF s.timer_state.tag = "Ticking"
    THEN [s EXCEPT !.timer_state = Ticking(s.timer_state.last_tick - shift)]
    ELSE s

LiveInit == Init

\* The first Toggle
Start ==
    /\ message.type = "None"
    /\ Toggle

LiveAdvance ==
    /\ ~panicked
    /\ earlygirl.timer_state.tag = "Ticking"
    /\ \E d \in Deltas :
         LET shift == earlygirl.timer_state.last_tick
         IN  /\ clock + d - shift <= MaxClock
             /\ clock' = clock + d - shift
             /\ earlygirl' = rebase(earlygirl, shift)
             /\ pre' = rebase(pre, shift)
             /\ pending' = [i \in 1..Len(pending) |-> pending[i] - shift]
             /\ message' = IF message.type = "Tick"
                           THEN [message EXCEPT !.now = @ - shift]
                           ELSE message
    /\ UNCHANGED <<panicked, notification, save_result, display>>

LiveNext ==
    \/ Start
    \/ LiveAdvance
    \/ TickSource
    \/ Tick

\* time::every keeps producing Ticks while subscribed, the runtime keeps
\* handing queued messages to update, and time keeps passing
LiveSpec ==
    /\ LiveInit
    /\ [][LiveNext]_vars
    /\ WF_vars(LiveAdvance)
    /\ WF_vars(TickSource)
    /\ WF_vars(Tick)

TypeOK ==
    /\ earlygirl.timer_type \in {"WorkTime", "BreakTime"}
    /\ earlygirl.timer_state.tag \in {"Idle", "Ticking"}
    /\ earlygirl.current_timer_duration \in Nat
    /\ clock \in 0..MaxClock
    /\ Len(pending) <= MaxQueue

----------------------------------------------------------------------------
\* The phase the timer is in after a flip, and the configured duration of a phase
other_type(t) == IF t = "WorkTime" THEN "BreakTime" ELSE "WorkTime"
configured_interval(s) ==
    IF s.timer_type = "WorkTime" THEN s.preferences.work_interval
                                 ELSE s.preferences.break_interval
auto_start(s) ==
    IF s.timer_type = "WorkTime" THEN s.preferences.auto_start_work
                                 ELSE s.preferences.auto_start_break

\* The latest call of update was a Tick that reached the interval (PhaseComplete)
TickCompleted == message.type = "Tick" /\ phase_complete(pre, message.now)

\* The step is one call of update with Message::Tick
TickStep == pending # <<>> /\ pending' = Tail(pending) /\ message'.type = "Tick"

\* The step is one call of update with Message::Toggle
ToggleStep == message'.type = "Toggle" /\ pre' = earlygirl /\ earlygirl' # earlygirl

----------------------------------------------------------------------------
\* C1: when a Tick completes a phase, the notification names the phase that
\* just completed: "Time for a break!" after Work, "Time to get back to
\* work!" after Break.
C1_NotificationNamesCompletedPhase ==
    TickCompleted =>
        notification = IF pre.timer_type = "WorkTime" THEN "Time for a break!"
                                                      ELSE "Time to get back to work!"

\* C2: from every Idle state, Toggle followed by Toggle with no Tick in between
\* ends Idle with the elapsed time the timer had before the pair.
C2_ToggleToggleKeepsElapsed ==
    [][(/\ message.type = "Toggle"
        /\ pre.timer_state = Idle
        /\ ToggleStep)
       => (/\ earlygirl'.timer_state = Idle
           /\ earlygirl'.current_timer_duration = pre.current_timer_duration)]_vars

\* C3: SwitchWorkType issued in any state leaves the timer Idle.
C3_SwitchLeavesIdle ==
    message.type = "SwitchWorkType" => earlygirl.timer_state = Idle

\* C4: a failed save of the preferences during a settings message does not
\* abort the process, and the updated setting stays in memory.
C4_SaveFailureDoesNotAbort ==
    save_result = "err" =>
        /\ ~panicked
        /\ message.type = "WorkIntervalChanged" =>
               earlygirl.preferences.work_interval = message.value * MINUTE
        /\ message.type = "BreakIntervalChanged" =>
               earlygirl.preferences.break_interval = message.value * MINUTE
        /\ message.type = "AutoStartWorkChanged" =>
               earlygirl.preferences.auto_start_work = message.value
        /\ message.type = "AutoStartBreakChanged" =>
               earlygirl.preferences.auto_start_break = message.value

\* C5: when a Tick completes a phase and the auto-start flag of the new phase
\* is false, the phase is flipped, elapsed is 0, the interval is the new
\* phase's configured duration and the timer is Idle.
C5_CompleteWithoutAutoStart ==
    (TickCompleted /\ ~auto_start(earlygirl)) =>
        /\ earlygirl.timer_type = other_type(pre.timer_type)
        /\ earlygirl.current_timer_duration = 0
        /\ earlygirl.interval = configured_interval(earlygirl)
        /\ earlygirl.timer_state = Idle

C5_Witness ==
    /\ TickCompleted
    /\ ~auto_start(earlygirl)
    /\ pre.timer_type = "WorkTime"
    /\ pre.preferences.work_interval # pre.preferences.break_interval
    /\ earlygirl.timer_type = "BreakTime"
    /\ earlygirl.timer_state = Idle

\* C6: when a Tick completes a phase and the auto-start flag of the new phase
\* is true, the timer stays Ticking with last_tick the timestamp of that Tick
\* and elapsed 0, and the next Tick, with no Toggle, adds its delta to elapsed
\* in the new phase (or completes the new phase when the delta reaches its
\* interval).
C6_CompleteWithAutoStart ==
    [][/\ (TickCompleted /\ auto_start(earlygirl))' =>
             (/\ earlygirl.timer_state = Ticking(message.now)
              /\ earlygirl.current_timer_duration = 0
              /\ earlygirl.timer_type = other_type(pre.timer_type))'
       /\ (TickCompleted /\ auto_start(earlygirl) /\ TickStep) =>
             LET d == duration_since(message'.now, message.now)
             IN  IF d >= configured_interval(earlygirl)
                 THEN notification' # "none"
                 ELSE earlygirl' = [earlygirl EXCEPT
                                       !.current_timer_duration = d,
                                       !.timer_state = Ticking(message'.now)]]_vars

C6_Witness ==
    /\ TickCompleted
    /\ auto_start(earlygirl)
    /\ earlygirl.timer_state.tag = "Ticking"
    /\ earlygirl.timer_type = "BreakTime"
    /\ message.now > 0

\* C7: the notification and the phase flip of PhaseComplete happen exactly in
\* a Tick handled while Ticking after which the accumulated time has reached
\* the interval; no other Tick flips the phase and no other message notifies.
C7_PhaseCompleteExactlyOnThreshold ==
    LET fired == /\ message.type = "Tick"
                 /\ pre.timer_state.tag = "Ticking"
                 /\ pre.current_timer_duration
                      + duration_since(message.now, pre.timer_state.last_tick)
                    >= pre.interval
    IN  /\ (notification # "none") <=> fired
        /\ message.type = "Tick" =>
              ((earlygirl.timer_type # pre.timer_type) <=> fired)
        /\ fired => earlygirl.current_timer_duration = 0

C7_Witness ==
    /\ message.type = "Tick"
    /\ pre.timer_state.tag = "Ticking"
    /\ pre.current_timer_duration > 0
    /\ pre.current_timer_duration
         + duration_since(message.now, pre.timer_state.last_tick) = pre.interval
    /\ notification # "none"

\* C8: Reset issued in any state yields elapsed 0 and Idle.
C8_ResetYieldsZeroIdle ==
    message.type = "Reset" =>
        /\ earlygirl.current_timer_duration = 0
        /\ earlygirl.timer_state = Idle

C8_Witness ==
    /\ message.type = "Reset"
    /\ pre.timer_state.tag = "Ticking"
    /\ pre.current_timer_duration > 0
    /\ earlygirl.current_timer_duration = 0

\* C9: SwitchWorkType flips the phase once, sets elapsed to 0 and sets the
\* interval to the configured duration of the new phase.
C9_SwitchFlipsAndResets ==
    message.type = "SwitchWorkType" =>
        /\ earlygirl.timer_type = other_type(pre.timer_type)
        /\ earlygirl.current_timer_duration = 0
        /\ earlygirl.interval = configured_interval(earlygirl)

C9_Witness ==
    /\ message.type = "SwitchWorkType"
    /\ pre.timer_type = "BreakTime"
    /\ pre.current_timer_duration > 0
    /\ pre.preferences.work_interval # pre.preferences.break_interval
    /\ earlygirl.timer_type = "WorkTime"

\* C10: in a run of Ticks with nondecreasing timestamps while Ticking, begun
\* by the Toggle that started the timer, a Tick that does not complete the
\* phase never lowers elapsed, and the accumulated time exceeds the interval
\* by no more than the delta of the Tick that completes the phase.
C10_TicksAccumulateMonotonically ==
    [][(/\ TickStep
        /\ earlygirl.timer_state.tag = "Ticking"
        /\ \/ message.type = "Toggle"
           \/ message.type = "Tick" /\ pre.timer_state.tag = "Ticking"
        /\ message'.now >= earlygirl.timer_state.last_tick)
       => LET d == message'.now - earlygirl.timer_state.last_tick
              acc == earlygirl.current_timer_duration + d
          IN  /\ acc - earlygirl.interval <= d
              /\ IF acc >= earlygirl.interval
                 THEN notification' # "none"
                 ELSE /\ earlygirl'.current_timer_duration = acc
                      /\ earlygirl'.current_timer_duration
                           >= earlygirl.current_timer_duration
                      /\ earlygirl'.timer_state.tag = "Ticking"]_vars

C10_Witness ==
    /\ message.type = "Tick"
    /\ pre.timer_state.tag = "Ticking"
    /\ pre.current_timer_duration > 0
    /\ message.now > pre.timer_state.last_tick
    /\ pre.current_timer_duration + (message.now - pre.timer_state.last_tick)
         > pre.interval
    /\ notification # "none"

\* C11: a Tick whose timestamp is earlier than last_tick, handled while
\* Ticking, adds nothing: elapsed is unchanged by it and it completes no
\* phase; and no Tick lowers elapsed except the reset to 0 of PhaseComplete.
C11_RollbackTickAddsNothing ==
    [][(TickStep /\ earlygirl.timer_state.tag = "Ticking")
       => /\ message'.now < earlygirl.timer_state.last_tick =>
                /\ earlygirl'.current_timer_duration = earlygirl.current_timer_duration
                /\ notification' = "none"
          /\ \/ earlygirl'.current_timer_duration >= earlygirl.current_timer_duration
             \/ notification' # "none" /\ earlygirl'.current_timer_duration = 0]_vars

C11_Witness ==
    /\ message.type = "Tick"
    /\ pre.timer_state.tag = "Ticking"
    /\ message.now < pre.timer_state.last_tick
    /\ earlygirl.timer_state.tag = "Ticking"
    /\ earlygirl.current_timer_duration = pre.current_timer_duration

\* C12: in every reachable state the interval is the configured duration of
\* the current phase, and WorkIntervalChanged while in Work (BreakIntervalChanged
\* while in Break) puts the new duration into the interval at once.
C12_IntervalFollowsSettings ==
    /\ earlygirl.interval = configured_interval(earlygirl)
    /\ (message.type = "WorkIntervalChanged" /\ pre.timer_type = "WorkTime") =>
           earlygirl.interval = message.value * MINUTE
    /\ (message.type = "BreakIntervalChanged" /\ pre.timer_type = "BreakTime") =>
           earlygirl.interval = message.value * MINUTE

\* C13: changing the duration of the phase that is not active leaves the
\* interval, the phase, the run state and elapsed as they were.
C13_InactiveDurationChangeIsFramed ==
    (\/ message.type = "BreakIntervalChanged" /\ pre.timer_type = "WorkTime"
     \/ message.type = "WorkIntervalChanged" /\ pre.timer_type = "BreakTime")
    => /\ earlygirl.interval = pre.interval
       /\ earlygirl.timer_type = pre.timer_type
       /\ earlygirl.timer_state = pre.timer_state
       /\ earlygirl.current_timer_duration = pre.current_timer_duration

C13_Witness ==
    /\ message.type = "BreakIntervalChanged"
    /\ pre.timer_type = "WorkTime"
    /\ pre.preferences.break_interval # message.value * MINUTE
    /\ earlygirl.preferences.break_interval = message.value * MINUTE
    /\ pre.timer_state.tag = "Ticking"
    /\ pre.current_timer_duration > 0
    /\ ~panicked

\* C14: Toggle while Idle yields Ticking with last_tick the current instant,
\* elapsed 0 and the interval of the current phase, the phase unchanged;
\* Toggle while Ticking yields Idle and changes nothing else.
C14_ToggleEffects ==
    [][ToggleStep =>
         IF earlygirl.timer_state = Idle
         THEN earlygirl' = [earlygirl EXCEPT
                               !.timer_state = Ticking(clock),
                               !.current_timer_duration = 0,
                               !.interval = configured_interval(earlygirl)]
         ELSE earlygirl' = [earlygirl EXCEPT !.timer_state = Idle]]_vars

C14_Witness ==
    /\ message.type = "Toggle"
    /\ pre.timer_state = Idle
    /\ pre.current_timer_duration > 0
    /\ earlygirl.timer_state.tag = "Ticking"
    /\ earlygirl.current_timer_duration = 0

\* C15: the tick source produces a Tick only while the timer is Ticking, and
\* a Tick handled while Idle changes nothing of the engine and notifies nobody.
C15_TicksOnlyWhileTicking ==
    [][/\ Len(pending') > Len(pending) => earlygirl.timer_state.tag = "Ticking"
       /\ (TickStep /\ earlygirl.timer_state = Idle) =>
             /\ earlygirl' = earlygirl
             /\ notification' = "none"]_vars

C15_Witness ==
    /\ message.type = "Tick"
    /\ pre.timer_state = Idle
    /\ pre.current_timer_duration > 0
    /\ earlygirl = pre
    /\ notification = "none"

\* C16: the remaining time shown is max(interval - elapsed, 0) written as
\* HH:MM:SS and is never negative; an interval of 3661 s shows "01:01:01" at
\* elapsed 0 and "00:00:00" at any elapsed of 3661 s or more.
C16_RemainingTimeDisplay ==
    display # Blank =>
        LET digit == <<"0", "1", "2", "3", "4", "5", "6", "7", "8", "9">>
            two(n) == digit[(n \div 10) + 1] \o digit[(n % 10) + 1]
            d == earlygirl.interval - earlygirl.current_timer_duration
            r == IF d > 0 THEN d ELSE 0
        IN  /\ display.duration =
                  two(r \div 3600) \o ":" \o two((r \div 60) % 60) \o ":" \o two(r % 60)
            /\ (earlygirl.interval = 3661 /\ earlygirl.current_timer_duration = 0) =>
                  display.duration = "01:01:01"
            /\ (earlygirl.interval = 3661 /\ earlygirl.current_timer_duration >= 3661) =>
                  display.duration = "00:00:00"

C16_Witness ==
    /\ earlygirl.interval = 3661
    /\ earlygirl.current_timer_duration > 3661
    /\ display.duration = "00:00:00"

\* C17: in every reachable state the progress value computed for display,
\* elapsed / interval (as a percentage, times 100), lies between 0 and 1 (100).
C17_ProgressWithinUnit ==
    /\ display.timer_progress.num >= 0
    /\ display.timer_progress.num <= 100 * display.timer_progress.den

\* C18: only Toggle moves the timer from Idle to Ticking: SwitchWorkType,
\* Reset, Tick and every settings message handled while Idle leave it Idle,
\* whatever the auto-start flags are.
C18_OnlyToggleStarts ==
    (pre.timer_state = Idle /\ message.type \notin {"None", "Toggle"}) =>
        earlygirl.timer_state = Idle

C18_Witness ==
    /\ message.type = "SwitchWorkType"
    /\ pre.timer_state = Idle
    /\ auto_start(earlygirl)
    /\ earlygirl.timer_type # pre.timer_type
    /\ earlygirl.timer_state = Idle

\* C19: Reset changes neither the phase nor the settings, and leaves the
\* interval at the configured duration of that phase.
C19_ResetKeepsPhaseAndSettings ==
    message.type = "Reset" =>
        /\ earlygirl.timer_type = pre.timer_type
        /\ earlygirl.preferences = pre.preferences
        /\ earlygirl.interval = configured_interval(pre)

C19_Witness ==
    /\ message.type = "Reset"
    /\ pre.timer_type = "BreakTime"
    /\ pre.timer_state.tag = "Ticking"
    /\ earlygirl.timer_type = "BreakTime"
    /\ earlygirl.preferences.work_interval # earlygirl.preferences.break_interval

\* C20: while the timer is Ticking and is left alone, with Ticks arriving as
\* time passes, the current phase eventually completes; with both auto-start
\* flags set the timer is in Work again and again and in Break again and
\* again, after the one Toggle that started it.
C20_PhasesEventuallyComplete ==
    /\ (earlygirl.timer_state.tag = "Ticking" /\ earlygirl.timer_type = "WorkTime")
         ~> (TickCompleted /\ earlygirl.timer_type = "BreakTime")
    /\ (earlygirl.timer_state.tag = "Ticking" /\ earlygirl.timer_type = "BreakTime")
         ~> (TickCompleted /\ earlygirl.timer_type = "WorkTime")
    /\ <>(/\ earlygirl.timer_state.tag = "Ticking"
          /\ earlygirl.preferences.auto_start_work
          /\ earlygirl.preferences.auto_start_break)
         => /\ []<>(earlygirl.timer_type = "WorkTime")
            /\ []<>(earlygirl.timer_type = "BreakTime")

C20_Witness ==
    /\ TickCompleted
    /\ earlygirl.preferences.auto_start_work
    /\ earlygirl.preferences.auto_start_break
    /\ pre.timer_type = "BreakTime"
    /\ earlygirl.timer_type = "WorkTime"
    /\ earlygirl.timer_state.tag = "Ticking"
====
